---- MODULE Spec2Model ----
(***************************************************************************)
(* Pod-manifest validators of aufadeev/project_yaml.                       *)
(*                                                                         *)
(* The repository holds three programs that validate the same schema over  *)
(* a gopkg.in/yaml.v3 node tree:                                           *)
(*   main_*  src/main.go            fail-fast, returns one error or nil    *)
(*   p0_*    src/unnamed/part_000   collects []ValidationError             *)
(*   p1_*    src/unnamed/part_001   Validator collecting formatted strings *)
(* Strings are TLA+ strings; Len, SubSeq and \o act on them character by   *)
(* character.  A node is a record Kind/Tag/Value/Line/Content shaped like  *)
(* yaml.Node; a mapping's Content is the flat list key, value, key, ...    *)
(***************************************************************************)
EXTENDS Integers, Sequences, FiniteSets, TLC

(* Largest number of items of spec.containers in the generated manifests. *)
MaxContainers == 3

(***************************************************************************)
(* Strings: package strings, strconv and regexp as the programs use them.  *)
(***************************************************************************)
Char(s, i) == SubSeq(s, i, i)

HasPrefix(s, p) == Len(s) >= Len(p) /\ SubSeq(s, 1, Len(p)) = p

HasSuffix(s, p) == Len(s) >= Len(p) /\ SubSeq(s, Len(s) - Len(p) + 1, Len(s)) = p

Contains(s, sub) ==
    \E i \in 1..(Len(s) - Len(sub) + 1) : SubSeq(s, i, i + Len(sub) - 1) = sub

(* s[n:] of Go, n counted in bytes from 0. *)
SliceFrom(s, n) == SubSeq(s, n + 1, Len(s))

Digits == "0123456789"
Lower == "abcdefghijklmnopqrstuvwxyz"

InClass(c, class) == \E i \in 1..Len(class) : Char(class, i) = c

IsDigit(c) == InClass(c, Digits)

AllDigits(s) == \A i \in 1..Len(s) : IsDigit(Char(s, i))

DigitVal(c) == CHOOSE d \in 0..9 : Char(Digits, d + 1) = c

RECURSIVE DecVal(_)
DecVal(s) ==
    IF Len(s) = 0 THEN 0
    ELSE 10 * DecVal(SubSeq(s, 1, Len(s) - 1)) + DigitVal(Char(s, Len(s)))

(* strconv.Atoi: an optional sign, then one or more decimal digits.  The  *)
(* manifests hold at most six digits, far below the range error of int.   *)
Atoi(s) ==
    LET signed == Len(s) > 0 /\ Char(s, 1) \in {"+", "-"}
        body   == IF signed THEN SliceFrom(s, 1) ELSE s
    IN  IF Len(body) = 0 \/ ~AllDigits(body)
        THEN [ok |-> FALSE, val |-> 0]
        ELSE [ok |-> TRUE,
              val |-> IF signed /\ Char(s, 1) = "-" THEN 0 - DecVal(body) ELSE DecVal(body)]

RECURSIVE Itoa(_)
(* The %d verb of fmt. *)
Itoa(n) ==
    IF n < 0 THEN "-" \o Itoa(0 - n)
    ELSE IF n < 10 THEN Char(Digits, n + 1)
    ELSE Itoa(n \div 10) \o Char(Digits, (n % 10) + 1)

(* regexp.MatchString for the pattern `^[a-z][a-z0-9_]*$` *)
MatchSnakeCase(s) ==
    /\ Len(s) >= 1
    /\ InClass(Char(s, 1), Lower)
    /\ \A i \in 2..Len(s) : InClass(Char(s, i), Lower \o Digits \o "_")

(* regexp.MatchString for the pattern `^\d+(Gi|Mi|Ki)$` *)
MatchMemory(s) ==
    /\ Len(s) >= 3
    /\ SubSeq(s, Len(s) - 1, Len(s)) \in {"Gi", "Mi", "Ki"}
    /\ AllDigits(SubSeq(s, 1, Len(s) - 2))

(* filepath.Base for a slash-separated path without a trailing slash. *)
Base(path) ==
    LET cuts == {i \in 1..Len(path) : Char(path, i) = "/"}
    IN  IF cuts = {} THEN path
        ELSE SliceFrom(path, CHOOSE i \in cuts : \A j \in cuts : j <= i)

(***************************************************************************)
(* yaml.Node and the tree yaml.Unmarshal builds from a block-style text.   *)
(***************************************************************************)
DocumentNode == "DocumentNode"
SequenceNode == "SequenceNode"
MappingNode  == "MappingNode"
ScalarNode   == "ScalarNode"

Node(kind, tag, value, line, content) ==
    [Kind |-> kind, Tag |-> tag, Value |-> value, Line |-> line, Content |-> content]

(* The nil *yaml.Node. *)
NilNode == Node("nil", "", "", 0, <<>>)

(* The zero yaml.Node that Unmarshal leaves for an empty text. *)
ZeroNode == Node("zero", "", "", 0, <<>>)

(* Source text, before parsing: a scalar (plain or quoted), a mapping of   *)
(* key/text pairs, a sequence of texts.  All are records of one shape.      *)
Plain(v)  == [t |-> "scalar", v |-> v, quoted |-> FALSE, c |-> <<>>]
Quoted(v) == [t |-> "scalar", v |-> v, quoted |-> TRUE, c |-> <<>>]
Pair(k, x) == [t |-> "pair", v |-> k, quoted |-> FALSE, c |-> <<x>>]
Map(ps)   == [t |-> "mapping", v |-> "", quoted |-> FALSE, c |-> ps]
List(xs)  == [t |-> "sequence", v |-> "", quoted |-> FALSE, c |-> xs]

(* Tag resolution of yaml.v3 for a plain scalar (null, bool, decimal int,  *)
(* otherwise string); a quoted scalar is always a string.                  *)
ResolveTag(v, quoted) ==
    IF quoted THEN "!!str"
    ELSE IF v \in {"", "~", "null"} THEN "!!null"
    ELSE IF v \in {"true", "false"} THEN "!!bool"
    ELSE IF Atoi(v).ok THEN "!!int"
    ELSE "!!str"

RECURSIVE Parse(_, _), ParsePairs(_, _, _, _), ParseItems(_, _, _, _)
(* Parse(text, line) = [node, next]: the node of a text whose first line is *)
(* `line`, and the first line after it.  A scalar value shares the line of  *)
(* its key; a non-empty collection under a key starts on the next line; a   *)
(* sequence item starts on the line of its dash.                            *)
Parse(text, line) ==
    IF text.t = "scalar"
    THEN [node |-> Node(ScalarNode, ResolveTag(text.v, text.quoted), text.v, line, <<>>),
          next |-> line + 1]
    ELSE IF Len(text.c) = 0
    THEN [node |-> Node(IF text.t = "mapping" THEN MappingNode ELSE SequenceNode,
                        IF text.t = "mapping" THEN "!!map" ELSE "!!seq", "", line, <<>>),
          next |-> line + 1]
    ELSE IF text.t = "mapping"
    THEN LET r == ParsePairs(text.c, 1, line, <<>>)
         IN  [node |-> Node(MappingNode, "!!map", "", line, r.content), next |-> r.next]
    ELSE LET r == ParseItems(text.c, 1, line, <<>>)
         IN  [node |-> Node(SequenceNode, "!!seq", "", line, r.content), next |-> r.next]

ParsePairs(ps, i, line, acc) ==
    IF i > Len(ps) THEN [content |-> acc, next |-> line]
    ELSE LET key   == Node(ScalarNode, "!!str", ps[i].v, line, <<>>)
             inl   == ps[i].c[1].t = "scalar" \/ Len(ps[i].c[1].c) = 0
             value == Parse(ps[i].c[1], IF inl THEN line ELSE line + 1)
         IN  ParsePairs(ps, i + 1, value.next, acc \o <<key, value.node>>)

ParseItems(xs, i, line, acc) ==
    IF i > Len(xs) THEN [content |-> acc, next |-> line]
    ELSE LET item == Parse(xs[i], line)
         IN  ParseItems(xs, i + 1, item.next, Append(acc, item.node))

(* yaml.Unmarshal(content, &root): a document node holding the top node. *)
Unmarshal(text) ==
    Node(DocumentNode, "", "", 1, <<Parse(text, 1).node>>)

(***************************************************************************)
(* src/main.go: every function returns the first error it meets, or nil.   *)
(* An error value is <<>> (nil) or <<e>> with e a ValidationError.         *)
(***************************************************************************)
Nil == <<>>

ValidationError(file, line, msg) == <<[File |-> file, Line |-> line, Msg |-> msg]>>

(* `if err != nil { return err }` before the rest of a function. *)
orReturn(err, rest) == IF err # Nil THEN err ELSE rest

RECURSIVE findPair(_, _, _)
(* The loop of findNodeByKey from index i (1-based) on. *)
findPair(content, key, i) ==
    IF i > Len(content) THEN NilNode
    ELSE IF content[i].Value = key THEN content[i + 1]
    ELSE findPair(content, key, i + 2)

findNodeByKey(parent, key) ==
    IF parent.Kind # MappingNode THEN NilNode ELSE findPair(parent.Content, key, 1)

(* requireField: err is the message of the error, "" when there is none. *)
requireField(parent, key) ==
    LET node == findNodeByKey(parent, key)
    IN  IF node = NilNode THEN [node |-> NilNode, err |-> key \o " is required"]
        ELSE [node |-> node, err |-> ""]

validateString(node, field) ==
    IF node.Kind # ScalarNode \/ node.Tag # "!!str"
    THEN [ok |-> FALSE, val |-> "", err |-> field \o " must be string"]
    ELSE [ok |-> TRUE, val |-> node.Value, err |-> ""]

validateInt(node, field) ==
    LET bad == [ok |-> FALSE, val |-> 0, err |-> field \o " must be int"]
        num == Atoi(node.Value)
    IN  IF node.Kind # ScalarNode THEN bad
        ELSE IF node.Tag = "!!int" THEN (IF num.ok THEN [ok |-> TRUE, val |-> num.val, err |-> ""] ELSE bad)
        ELSE IF node.Tag = "!!str" THEN (IF num.ok THEN [ok |-> TRUE, val |-> num.val, err |-> ""] ELSE bad)
        ELSE bad

validatePort(node, field) == validateInt(node, field)

snakeCaseRe(s) == MatchSnakeCase(s)

isValidContainerName(name) == snakeCaseRe(name)

memoryRe(s) == MatchMemory(s)

isValidMemoryFormat(s) == memoryRe(s)

RECURSIVE main_labelsLoop(_, _, _)
main_labelsLoop(content, i, file) ==
    IF i > Len(content) THEN Nil
    ELSE LET valNode == content[i + 1]
         IN  IF ~validateString(valNode, "metadata.labels value").ok
             THEN ValidationError(file, valNode.Line, "metadata.labels value must be string")
             ELSE main_labelsLoop(content, i + 2, file)

main_validateObjectMeta(node, file) ==
    LET nameNode   == requireField(node, "name")
        nsNode     == findNodeByKey(node, "namespace")
        labelsNode == findNodeByKey(node, "labels")
    IN  IF node.Kind # MappingNode
        THEN ValidationError(file, node.Line, "metadata must be object")
        ELSE IF nameNode.err # "" THEN ValidationError(file, 0, nameNode.err)
        ELSE IF ~validateString(nameNode.node, "metadata.name").ok
        THEN ValidationError(file, nameNode.node.Line, validateString(nameNode.node, "metadata.name").err)
        ELSE IF nsNode # NilNode /\ ~validateString(nsNode, "metadata.namespace").ok
        THEN ValidationError(file, nsNode.Line, validateString(nsNode, "metadata.namespace").err)
        ELSE IF labelsNode # NilNode
        THEN (IF labelsNode.Kind # MappingNode
              THEN ValidationError(file, labelsNode.Line, "metadata.labels must be object")
              ELSE main_labelsLoop(labelsNode.Content, 1, file))
        ELSE Nil

main_validatePodOS(node, file) ==
    LET nameNode == requireField(node, "name")
        name     == validateString(nameNode.node, "spec.os.name")
    IN  IF node.Kind # MappingNode THEN ValidationError(file, node.Line, "os must be object")
        ELSE IF nameNode.err # "" THEN ValidationError(file, 0, nameNode.err)
        ELSE IF ~name.ok THEN ValidationError(file, nameNode.node.Line, name.err)
        ELSE IF name.val # "linux" /\ name.val # "windows"
        THEN ValidationError(file, nameNode.node.Line,
                             "spec.os.name has unsupported value '" \o name.val \o "'")
        ELSE Nil

main_validateHTTPGetAction(node, prefix, file) ==
    LET pathNode == requireField(node, "path")
        path     == validateString(pathNode.node, prefix \o ".path")
        portNode == requireField(node, "port")
        port     == validatePort(portNode.node, prefix \o ".port")
    IN  IF node.Kind # MappingNode
        THEN ValidationError(file, node.Line, prefix \o ".httpGet must be object")
        ELSE IF pathNode.err # "" THEN ValidationError(file, 0, prefix \o "." \o pathNode.err)
        ELSE IF ~path.ok THEN ValidationError(file, pathNode.node.Line, path.err)
        ELSE IF ~HasPrefix(path.val, "/")
        THEN ValidationError(file, pathNode.node.Line,
                             prefix \o ".path has invalid format '" \o path.val \o "'")
        ELSE IF portNode.err # "" THEN ValidationError(file, 0, prefix \o "." \o portNode.err)
        ELSE IF ~port.ok THEN ValidationError(file, portNode.node.Line, port.err)
        ELSE Nil

main_validateProbe(node, prefix, file) ==
    LET httpGetNode == requireField(node, "httpGet")
    IN  IF node.Kind # MappingNode
        THEN ValidationError(file, node.Line, prefix \o " must be object")
        ELSE IF httpGetNode.err # "" THEN ValidationError(file, 0, prefix \o "." \o httpGetNode.err)
        ELSE main_validateHTTPGetAction(httpGetNode.node, prefix \o ".httpGet", file)

(* One turn of checkResource's loop: the switch on the key of a pair. *)
main_checkResourcePair(keyNode, valNode, prefix, kind, file) ==
    LET key == keyNode.Value
        cpu == validateInt(valNode, prefix \o "." \o kind \o ".cpu")
        mem == validateString(valNode, prefix \o "." \o kind \o ".memory")
    IN  IF key = "cpu"
        THEN (IF ~cpu.ok THEN ValidationError(file, valNode.Line, cpu.err) ELSE Nil)
        ELSE IF key = "memory"
        THEN (IF ~mem.ok THEN ValidationError(file, valNode.Line, mem.err)
              ELSE IF ~isValidMemoryFormat(mem.val)
              THEN ValidationError(file, valNode.Line,
                       prefix \o "." \o kind \o ".memory has invalid format '" \o mem.val \o "'")
              ELSE Nil)
        ELSE Nil

RECURSIVE main_checkResourceLoop(_, _, _, _, _)
main_checkResourceLoop(content, i, prefix, kind, file) ==
    IF i > Len(content) THEN Nil
    ELSE orReturn(main_checkResourcePair(content[i], content[i + 1], prefix, kind, file),
                  main_checkResourceLoop(content, i + 2, prefix, kind, file))

main_checkResource(parent, kind, prefix, file) ==
    IF parent = NilNode THEN Nil
    ELSE IF parent.Kind # MappingNode
    THEN ValidationError(file, parent.Line, prefix \o "." \o kind \o " must be object")
    ELSE main_checkResourceLoop(parent.Content, 1, prefix, kind, file)

main_validateResourceRequirements(node, prefix, file) ==
    LET limitsNode   == findNodeByKey(node, "limits")
        requestsNode == findNodeByKey(node, "requests")
    IN  IF node.Kind # MappingNode
        THEN ValidationError(file, node.Line, prefix \o " must be object")
        ELSE orReturn(IF limitsNode # NilNode
                      THEN main_checkResource(limitsNode, "limits", prefix, file) ELSE Nil,
                      IF requestsNode # NilNode
                      THEN main_checkResource(requestsNode, "requests", prefix, file) ELSE Nil)

main_validateContainerPort(node, file) ==
    LET containerPortNode == requireField(node, "containerPort")
        port         == validatePort(containerPortNode.node, "containerPort")
        protocolNode == findNodeByKey(node, "protocol")
        proto        == validateString(protocolNode, "protocol")
    IN  IF node.Kind # MappingNode
        THEN ValidationError(file, node.Line, "ports item must be object")
        ELSE IF containerPortNode.err # "" THEN ValidationError(file, 0, "containerPort is required")
        ELSE IF ~port.ok THEN ValidationError(file, containerPortNode.node.Line, port.err)
        ELSE IF protocolNode # NilNode
        THEN (IF ~proto.ok THEN ValidationError(file, protocolNode.Line, proto.err)
              ELSE IF proto.val # "TCP" /\ proto.val # "UDP"
              THEN ValidationError(file, protocolNode.Line,
                                   "protocol has unsupported value '" \o proto.val \o "'")
              ELSE Nil)
        ELSE Nil

RECURSIVE main_portsLoop(_, _, _)
main_portsLoop(content, i, file) ==
    IF i > Len(content) THEN Nil
    ELSE orReturn(main_validateContainerPort(content[i], file),
                  main_portsLoop(content, i + 1, file))

RegistryPrefix == "registry.bigbrother.io/"

(* The two image tests of validateContainer. *)
main_imageOk(image) ==
    /\ HasPrefix(image, RegistryPrefix)
    /\ Contains(SliceFrom(image, Len(RegistryPrefix)), ":")

main_validateContainer(node, file, index) ==
    LET at        == "containers[" \o Itoa(index) \o "]"
        nameNode  == requireField(node, "name")
        name      == validateString(nameNode.node, at \o ".name")
        imageNode == requireField(node, "image")
        image     == validateString(imageNode.node, at \o ".image")
        portsNode == findNodeByKey(node, "ports")
        ports     == IF portsNode = NilNode THEN Nil
                     ELSE IF portsNode.Kind # SequenceNode
                     THEN ValidationError(file, portsNode.Line, "containers[].ports must be array")
                     ELSE main_portsLoop(portsNode.Content, 1, file)
        rpNode    == findNodeByKey(node, "readinessProbe")
        rp        == IF rpNode = NilNode THEN Nil
                     ELSE main_validateProbe(rpNode, at \o ".readinessProbe", file)
        lpNode    == findNodeByKey(node, "livenessProbe")
        lp        == IF lpNode = NilNode THEN Nil
                     ELSE main_validateProbe(lpNode, at \o ".livenessProbe", file)
        resourcesNode == requireField(node, "resources")
    IN  IF node.Kind # MappingNode
        THEN ValidationError(file, node.Line, at \o " must be object")
        ELSE IF nameNode.err # "" THEN ValidationError(file, 0, at \o "." \o nameNode.err)
        ELSE IF ~name.ok THEN ValidationError(file, nameNode.node.Line, name.err)
        ELSE IF ~isValidContainerName(name.val)
        THEN ValidationError(file, nameNode.node.Line,
                             at \o ".name has invalid format '" \o name.val \o "'")
        ELSE IF imageNode.err # "" THEN ValidationError(file, 0, at \o "." \o imageNode.err)
        ELSE IF ~image.ok THEN ValidationError(file, imageNode.node.Line, image.err)
        ELSE IF ~main_imageOk(image.val)
        THEN ValidationError(file, imageNode.node.Line,
                             at \o ".image has invalid format '" \o image.val \o "'")
        ELSE orReturn(ports, orReturn(rp, orReturn(lp,
                 IF resourcesNode.err # ""
                 THEN ValidationError(file, 0, at \o "." \o resourcesNode.err)
                 ELSE main_validateResourceRequirements(resourcesNode.node,
                                                        at \o ".resources", file))))

RECURSIVE main_containersLoop(_, _, _)
main_containersLoop(content, i, file) ==
    IF i > Len(content) THEN Nil
    ELSE orReturn(main_validateContainer(content[i], file, i - 1),
                  main_containersLoop(content, i + 1, file))

main_validateContainers(node, file) ==
    IF node.Kind # SequenceNode
    THEN ValidationError(file, node.Line, "spec.containers must be array")
    ELSE IF Len(node.Content) = 0 THEN ValidationError(file, 0, "spec.containers is required")
    ELSE main_containersLoop(node.Content, 1, file)

main_validatePodSpec(node, file) ==
    LET osNode         == findNodeByKey(node, "os")
        os             == IF osNode = NilNode THEN Nil ELSE main_validatePodOS(osNode, file)
        containersNode == requireField(node, "containers")
    IN  IF node.Kind # MappingNode THEN ValidationError(file, node.Line, "spec must be object")
        ELSE orReturn(os,
                 IF containersNode.err # ""
                 THEN ValidationError(file, 0, "spec." \o containersNode.err)
                 ELSE main_validateContainers(containersNode.node, file))

(* validateTopLevel once the root mapping doc is in hand (lines 402-442). *)
main_validateRoot(doc, file) ==
    LET apiVersionNode == requireField(doc, "apiVersion")
        apiVersion     == validateString(apiVersionNode.node, "apiVersion")
        kindNode       == requireField(doc, "kind")
        kind           == validateString(kindNode.node, "kind")
        metadataNode   == requireField(doc, "metadata")
        metadata       == main_validateObjectMeta(metadataNode.node, file)
        specNode       == requireField(doc, "spec")
    IN  IF apiVersionNode.err # "" THEN ValidationError(file, 0, apiVersionNode.err)
        ELSE IF ~apiVersion.ok THEN ValidationError(file, apiVersionNode.node.Line, apiVersion.err)
        ELSE IF apiVersion.val # "v1"
        THEN ValidationError(file, apiVersionNode.node.Line,
                             "apiVersion has unsupported value '" \o apiVersion.val \o "'")
        ELSE IF kindNode.err # "" THEN ValidationError(file, 0, kindNode.err)
        ELSE IF ~kind.ok THEN ValidationError(file, kindNode.node.Line, kind.err)
        ELSE IF kind.val # "Pod"
        THEN ValidationError(file, kindNode.node.Line,
                             "kind has unsupported value '" \o kind.val \o "'")
        ELSE IF metadataNode.err # "" THEN ValidationError(file, 0, metadataNode.err)
        ELSE orReturn(metadata,
                 IF specNode.err # "" THEN ValidationError(file, 0, specNode.err)
                 ELSE main_validatePodSpec(specNode.node, file))

main_validateTopLevel(node, file) ==
    IF node.Kind # DocumentNode THEN ValidationError(file, 0, "expected document node")
    ELSE IF Len(node.Content) = 0 THEN ValidationError(file, 0, "empty document")
    ELSE IF node.Content[1].Kind # MappingNode
    THEN ValidationError(file, node.Content[1].Line, "root must be object")
    ELSE main_validateRoot(node.Content[1], file)

RECURSIVE main_docsLoop(_, _, _)
(* The loop of validateFile over root.Content. *)
main_docsLoop(content, i, path) ==
    IF i > Len(content) THEN Nil
    ELSE orReturn(main_validateTopLevel(content[i], path), main_docsLoop(content, i + 1, path))

(* validateFile from the parsed root on (lines 463-474). *)
main_validateFile(parsed, path) ==
    IF Len(parsed.Content) = 0 THEN ValidationError(path, 0, "empty YAML")
    ELSE main_docsLoop(parsed.Content, 1, path)

(***************************************************************************)
(* src/unnamed/part_000: every function returns the list of the errors it  *)
(* found.  The functions on the path of validateContainers return          *)
(* [panic, errors]: parseMapping indexes Content[i+1] without a bound.     *)
(***************************************************************************)
p0_Error(line, message) == [Line |-> line, Message |-> message]

snakeCaseRegex(s) == MatchSnakeCase(s)

memoryRegex(s) == MatchMemory(s)

(* errors = append(errors, f(...)...) for an f that can panic. *)
p0_append(errors, r) ==
    [panic |-> r.panic, errors |-> IF r.panic THEN <<>> ELSE errors \o r.errors]

(* The fields map: the last pair of a key wins.                            *)
parseMapping(node) ==
    LET n     == Len(node.Content) \div 2
        keyAt(i) == node.Content[2 * i - 1].Value
        last(k)  == CHOOSE i \in 1..n : keyAt(i) = k /\ \A j \in 1..n : keyAt(j) = k => j <= i
    IN  [k \in {keyAt(i) : i \in 1..n} |-> node.Content[2 * last(k)]]

(* node.Content[i+1] is out of range when Content has an odd length.       *)
parseMappingPanics(node) == Len(node.Content) % 2 = 1

p0_validateMetadata(node) ==
    LET fields == parseMapping(node)
        name   == IF "name" \notin DOMAIN fields THEN <<p0_Error(0, "name is required")>>
                  ELSE IF fields["name"].Kind # ScalarNode
                  THEN <<p0_Error(fields["name"].Line, "name must be string")>>
                  ELSE IF fields["name"].Value = ""
                  THEN <<p0_Error(fields["name"].Line, "name is required")>>
                  ELSE <<>>
        namespace == IF "namespace" \in DOMAIN fields /\ fields["namespace"].Kind # ScalarNode
                     THEN <<p0_Error(fields["namespace"].Line, "namespace must be string")>>
                     ELSE <<>>
        labels == IF "labels" \in DOMAIN fields /\ fields["labels"].Kind # MappingNode
                  THEN <<p0_Error(fields["labels"].Line, "labels must be object")>>
                  ELSE <<>>
    IN  IF node.Kind # MappingNode THEN <<p0_Error(node.Line, "metadata must be object")>>
        ELSE name \o namespace \o labels

p0_validatePodOS(node) ==
    LET fields == parseMapping(node)
    IN  IF node.Kind = ScalarNode
        THEN (IF node.Value # "linux" /\ node.Value # "windows"
              THEN <<p0_Error(node.Line, "os has unsupported value '" \o node.Value \o "'")>>
              ELSE <<>>)
        ELSE IF node.Kind = MappingNode
        THEN (IF "name" \notin DOMAIN fields THEN <<p0_Error(0, "name is required")>>
              ELSE IF fields["name"].Kind # ScalarNode
              THEN <<p0_Error(fields["name"].Line, "name must be string")>>
              ELSE IF fields["name"].Value # "linux" /\ fields["name"].Value # "windows"
              THEN <<p0_Error(fields["name"].Line,
                              "name has unsupported value '" \o fields["name"].Value \o "'")>>
              ELSE <<>>)
        ELSE <<p0_Error(node.Line, "os must be string or object")>>

(* The port test shared by containerPort and httpGet.port (lines 306-314,  *)
(* 369-377): no look at the tag.                                           *)
p0_portCheck(port, field) ==
    IF port.Kind # ScalarNode THEN <<p0_Error(port.Line, field \o " must be int")>>
    ELSE IF ~Atoi(port.Value).ok THEN <<p0_Error(port.Line, field \o " must be int")>>
    ELSE IF Atoi(port.Value).val <= 0 \/ Atoi(port.Value).val >= 65536
    THEN <<p0_Error(port.Line, field \o " value out of range")>>
    ELSE <<>>

p0_validateContainerPort(node) ==
    LET fields == parseMapping(node)
        containerPort == IF "containerPort" \notin DOMAIN fields
                         THEN <<p0_Error(0, "containerPort is required")>>
                         ELSE p0_portCheck(fields["containerPort"], "containerPort")
        protocol == IF "protocol" \notin DOMAIN fields THEN <<>>
                    ELSE IF fields["protocol"].Kind # ScalarNode
                    THEN <<p0_Error(fields["protocol"].Line, "protocol must be string")>>
                    ELSE IF fields["protocol"].Value # "TCP" /\ fields["protocol"].Value # "UDP"
                    THEN <<p0_Error(fields["protocol"].Line,
                             "protocol has unsupported value '" \o fields["protocol"].Value \o "'")>>
                    ELSE <<>>
    IN  IF node.Kind # MappingNode THEN <<p0_Error(node.Line, "port must be object")>>
        ELSE containerPort \o protocol

RECURSIVE p0_portsLoop(_, _)
p0_portsLoop(content, i) ==
    IF i > Len(content) THEN <<>>
    ELSE p0_validateContainerPort(content[i]) \o p0_portsLoop(content, i + 1)

p0_validateContainerPorts(node) ==
    IF node.Kind # SequenceNode THEN <<p0_Error(node.Line, "ports must be array")>>
    ELSE p0_portsLoop(node.Content, 1)

p0_validateHTTPGetAction(node) ==
    LET fields == parseMapping(node)
        path == IF "path" \notin DOMAIN fields THEN <<p0_Error(0, "path is required")>>
                ELSE IF fields["path"].Kind # ScalarNode
                THEN <<p0_Error(fields["path"].Line, "path must be string")>>
                ELSE IF ~HasPrefix(fields["path"].Value, "/")
                THEN <<p0_Error(fields["path"].Line,
                                "path has invalid format '" \o fields["path"].Value \o "'")>>
                ELSE <<>>
        port == IF "port" \notin DOMAIN fields THEN <<p0_Error(0, "port is required")>>
                ELSE p0_portCheck(fields["port"], "port")
    IN  IF node.Kind # MappingNode THEN <<p0_Error(node.Line, "httpGet must be object")>>
        ELSE path \o port

p0_validateProbe(node) ==
    LET fields == parseMapping(node)
    IN  IF node.Kind # MappingNode THEN <<p0_Error(node.Line, "probe must be object")>>
        ELSE IF "httpGet" \notin DOMAIN fields THEN <<p0_Error(0, "httpGet is required")>>
        ELSE p0_validateHTTPGetAction(fields["httpGet"])

(* The cpu test of validateResourceSpec (lines 415-430). *)
p0_cpuCheck(cpu) ==
    IF cpu.Kind # ScalarNode THEN <<p0_Error(cpu.Line, "cpu must be int")>>
    ELSE IF cpu.Tag = "!!str" THEN <<p0_Error(cpu.Line, "cpu must be int")>>
    ELSE IF ~Atoi(cpu.Value).ok THEN <<p0_Error(cpu.Line, "cpu must be int")>>
    ELSE <<>>

(* The memory test of validateResourceSpec (lines 433-439). *)
p0_memoryCheck(memory) ==
    IF memory.Kind # ScalarNode THEN <<p0_Error(memory.Line, "memory must be string")>>
    ELSE IF ~memoryRegex(memory.Value)
    THEN <<p0_Error(memory.Line, "memory has invalid format '" \o memory.Value \o "'")>>
    ELSE <<>>

p0_validateResourceSpec(node, fieldName) ==
    LET fields == parseMapping(node)
    IN  IF node.Kind # MappingNode THEN <<p0_Error(node.Line, fieldName \o " must be object")>>
        ELSE (IF "cpu" \in DOMAIN fields THEN p0_cpuCheck(fields["cpu"]) ELSE <<>>)
             \o (IF "memory" \in DOMAIN fields THEN p0_memoryCheck(fields["memory"]) ELSE <<>>)

p0_validateResources(node) ==
    LET fields == parseMapping(node)
    IN  IF node.Kind # MappingNode THEN <<p0_Error(node.Line, "resources must be object")>>
        ELSE (IF "requests" \in DOMAIN fields
              THEN p0_validateResourceSpec(fields["requests"], "requests") ELSE <<>>)
             \o (IF "limits" \in DOMAIN fields
                 THEN p0_validateResourceSpec(fields["limits"], "limits") ELSE <<>>)

(* The image tests of validateContainer (lines 248-252). *)
p0_imageOk(value) ==
    /\ HasPrefix(value, RegistryPrefix)
    /\ ~(~Contains(value, ":") \/ HasSuffix(value, ":"))

p0_validateContainer(node) ==
    LET fields == parseMapping(node)
        name  == IF "name" \notin DOMAIN fields THEN <<p0_Error(0, "name is required")>>
                 ELSE IF fields["name"].Kind # ScalarNode
                 THEN <<p0_Error(fields["name"].Line, "name must be string")>>
                 ELSE IF fields["name"].Value = ""
                 THEN <<p0_Error(fields["name"].Line, "name is required")>>
                 ELSE IF ~snakeCaseRegex(fields["name"].Value)
                 THEN <<p0_Error(fields["name"].Line,
                                 "name has invalid format '" \o fields["name"].Value \o "'")>>
                 ELSE <<>>
        image == IF "image" \notin DOMAIN fields THEN <<p0_Error(0, "image is required")>>
                 ELSE IF fields["image"].Kind # ScalarNode
                 THEN <<p0_Error(fields["image"].Line, "image must be string")>>
                 ELSE IF ~p0_imageOk(fields["image"].Value)
                 THEN <<p0_Error(fields["image"].Line,
                                 "image has invalid format '" \o fields["image"].Value \o "'")>>
                 ELSE <<>>
        ports == IF "ports" \in DOMAIN fields
                 THEN p0_validateContainerPorts(fields["ports"]) ELSE <<>>
        readiness == IF "readinessProbe" \in DOMAIN fields
                     THEN p0_validateProbe(fields["readinessProbe"]) ELSE <<>>
        liveness == IF "livenessProbe" \in DOMAIN fields
                    THEN p0_validateProbe(fields["livenessProbe"]) ELSE <<>>
        resources == IF "resources" \notin DOMAIN fields
                     THEN <<p0_Error(0, "resources is required")>>
                     ELSE p0_validateResources(fields["resources"])
    IN  IF node.Kind # MappingNode THEN <<p0_Error(node.Line, "container must be object")>>
        ELSE name \o image \o ports \o readiness \o liveness \o resources

(* What the uniqueness test of validateContainers appends for one          *)
(* container, given containerNames (name -> line of its first holder).      *)
p0_duplicateCheck(container, containerNames) ==
    LET fields == parseMapping(container)
        name   == fields["name"]
    IN  IF "name" \in DOMAIN fields /\ name.Kind = ScalarNode
        THEN (IF name.Value \in DOMAIN containerNames
              THEN [errors |-> <<p0_Error(name.Line,
                                   "duplicate container name '" \o name.Value
                                   \o "' (first defined at line "
                                   \o Itoa(containerNames[name.Value]) \o ")")>>,
                    names |-> containerNames]
              ELSE [errors |-> <<>>,
                    names |-> [k \in DOMAIN containerNames \cup {name.Value} |->
                                  IF k = name.Value THEN name.Line ELSE containerNames[k]]])
        ELSE [errors |-> <<>>, names |-> containerNames]

RECURSIVE p0_containersLoop(_, _, _, _)
p0_containersLoop(content, i, containerNames, errors) ==
    IF i > Len(content) THEN [panic |-> FALSE, errors |-> errors]
    ELSE IF parseMappingPanics(content[i]) THEN [panic |-> TRUE, errors |-> <<>>]
    ELSE LET dup == p0_duplicateCheck(content[i], containerNames)
         IN  p0_containersLoop(content, i + 1, dup.names,
                               errors \o p0_validateContainer(content[i]) \o dup.errors)

p0_validateContainers(node) ==
    IF node.Kind # SequenceNode
    THEN [panic |-> FALSE, errors |-> <<p0_Error(node.Line, "containers must be array")>>]
    ELSE p0_containersLoop(node.Content, 1, <<>>, <<>>)

p0_validateSpec(node) ==
    LET fields == parseMapping(node)
        os == IF "os" \in DOMAIN fields THEN p0_validatePodOS(fields["os"]) ELSE <<>>
        containers == IF "containers" \notin DOMAIN fields
                      THEN [panic |-> FALSE, errors |-> <<p0_Error(0, "containers is required")>>]
                      ELSE p0_validateContainers(fields["containers"])
    IN  IF node.Kind # MappingNode
        THEN [panic |-> FALSE, errors |-> <<p0_Error(node.Line, "spec must be object")>>]
        ELSE p0_append(os, containers)

(* validatePod with the kind block ahead of the apiVersion block: an       *)
(* evaluation order other than the schema's.                               *)
p0_validatePod_kindFirst(node) ==
    LET fields == parseMapping(node)
        apiVersion == IF "apiVersion" \notin DOMAIN fields
                      THEN <<p0_Error(0, "apiVersion is required")>>
                      ELSE IF fields["apiVersion"].Kind # ScalarNode \/ fields["apiVersion"].Value # "v1"
                      THEN <<p0_Error(fields["apiVersion"].Line,
                               "apiVersion has unsupported value '" \o fields["apiVersion"].Value \o "'")>>
                      ELSE <<>>
        kind == IF "kind" \notin DOMAIN fields THEN <<p0_Error(0, "kind is required")>>
                ELSE IF fields["kind"].Kind # ScalarNode \/ fields["kind"].Value # "Pod"
                THEN <<p0_Error(fields["kind"].Line,
                                "kind has unsupported value '" \o fields["kind"].Value \o "'")>>
                ELSE <<>>
        metadata == IF "metadata" \notin DOMAIN fields THEN <<p0_Error(0, "metadata is required")>>
                    ELSE p0_validateMetadata(fields["metadata"])
        spec == IF "spec" \notin DOMAIN fields
                THEN [panic |-> FALSE, errors |-> <<p0_Error(0, "spec is required")>>]
                ELSE p0_validateSpec(fields["spec"])
    IN  p0_append(kind \o apiVersion \o metadata, spec)

p0_validatePod(node) ==
    LET fields == parseMapping(node)
        apiVersion == IF "apiVersion" \notin DOMAIN fields
                      THEN <<p0_Error(0, "apiVersion is required")>>
                      ELSE IF fields["apiVersion"].Kind # ScalarNode \/ fields["apiVersion"].Value # "v1"
                      THEN <<p0_Error(fields["apiVersion"].Line,
                               "apiVersion has unsupported value '" \o fields["apiVersion"].Value \o "'")>>
                      ELSE <<>>
        kind == IF "kind" \notin DOMAIN fields THEN <<p0_Error(0, "kind is required")>>
                ELSE IF fields["kind"].Kind # ScalarNode \/ fields["kind"].Value # "Pod"
                THEN <<p0_Error(fields["kind"].Line,
                                "kind has unsupported value '" \o fields["kind"].Value \o "'")>>
                ELSE <<>>
        metadata == IF "metadata" \notin DOMAIN fields THEN <<p0_Error(0, "metadata is required")>>
                    ELSE p0_validateMetadata(fields["metadata"])
        spec == IF "spec" \notin DOMAIN fields
                THEN [panic |-> FALSE, errors |-> <<p0_Error(0, "spec is required")>>]
                ELSE p0_validateSpec(fields["spec"])
    IN  p0_append(apiVersion \o kind \o metadata, spec)

(* validateFile from the parsed root on (lines 66-78). *)
p0_validateFile(parsed) ==
    IF Len(parsed.Content) = 0
    THEN [panic |-> FALSE, errors |-> <<p0_Error(0, "empty YAML file")>>]
    ELSE IF parsed.Content[1].Kind # MappingNode
    THEN [panic |-> FALSE,
          errors |-> <<p0_Error(parsed.Content[1].Line, "root must be a mapping")>>]
    ELSE p0_validatePod(parsed.Content[1])

(***************************************************************************)
(* src/unnamed/part_001: the Validator appends formatted lines to          *)
(* v.errors.  Every function returns the lines it appends, in order; the   *)
(* names map of validateContainers is the set of its keys, or nil.         *)
(***************************************************************************)
(* v.errorf: the one line appended for (line, message). *)
errorf(filename, line, msg) ==
    IF line > 0 THEN <<Base(filename) \o ":" \o Itoa(line) \o " " \o msg>>
    ELSE <<Base(filename) \o " " \o msg>>

(* The pattern compiled in validateContainerName. *)
p1_namePattern(s) == MatchSnakeCase(s)

(* The pattern compiled in validateResourceMap. *)
p1_memoryPattern(s) == MatchMemory(s)

NilMap == [isNil |-> TRUE, keys |-> {}]

(* v.toMap: nil for a node that is no mapping, else the last pair of a key. *)
toMap(node) ==
    IF node.Kind # MappingNode THEN [isNil |-> TRUE, m |-> <<>>]
    ELSE [isNil |-> FALSE, m |-> parseMapping(node)]

p1_validateContainerName(f, node, names) ==
    IF node.Kind # ScalarNode
    THEN [errors |-> errorf(f, node.Line, "name must be string"), names |-> names]
    ELSE IF node.Value = ""
    THEN [errors |-> errorf(f, node.Line, "name is required"), names |-> names]
    ELSE IF ~p1_namePattern(node.Value)
    THEN [errors |-> errorf(f, node.Line, "name has invalid format '" \o node.Value \o "'"),
          names |-> names]
    ELSE IF ~names.isNil
    THEN [errors |-> IF node.Value \in names.keys
                     THEN errorf(f, node.Line, "name '" \o node.Value \o "' is not unique")
                     ELSE <<>>,
          names |-> [isNil |-> FALSE, keys |-> names.keys \cup {node.Value}]]
    ELSE [errors |-> <<>>, names |-> names]

p1_validateMetadata(f, node) ==
    LET fields == toMap(node).m
        name == IF "name" \notin DOMAIN fields THEN errorf(f, node.Line, "name is required")
                ELSE IF fields["name"].Value = ""
                THEN errorf(f, fields["name"].Line, "name is required")
                ELSE p1_validateContainerName(f, fields["name"], NilMap).errors
        ns == IF "namespace" \in DOMAIN fields /\ fields["namespace"].Kind # ScalarNode
              THEN errorf(f, fields["namespace"].Line, "namespace must be string") ELSE <<>>
        labels == IF "labels" \in DOMAIN fields /\ fields["labels"].Kind # MappingNode
                  THEN errorf(f, fields["labels"].Line, "labels must be a mapping") ELSE <<>>
    IN  IF toMap(node).isNil THEN errorf(f, node.Line, "metadata must be a mapping")
        ELSE name \o ns \o labels

p1_validatePodOS(f, node) ==
    LET fields == toMap(node).m
    IN  IF toMap(node).isNil THEN errorf(f, node.Line, "os must be a mapping")
        ELSE IF "name" \notin DOMAIN fields THEN errorf(f, node.Line, "os.name is required")
        ELSE IF fields["name"].Value # "linux" /\ fields["name"].Value # "windows"
        THEN errorf(f, fields["name"].Line,
                    "os has unsupported value '" \o fields["name"].Value \o "'")
        ELSE <<>>

p1_validateImage(f, node) ==
    IF node.Kind # ScalarNode THEN errorf(f, node.Line, "image must be string")
    ELSE IF ~HasPrefix(node.Value, RegistryPrefix) \/ ~Contains(node.Value, ":")
    THEN errorf(f, node.Line, "image has invalid format '" \o node.Value \o "'")
    ELSE <<>>

p1_validatePort(f, node, field) ==
    IF node.Tag # "!!int" THEN errorf(f, node.Line, field \o " must be int")
    ELSE IF ~Atoi(node.Value).ok THEN errorf(f, node.Line, field \o " must be int")
    ELSE IF Atoi(node.Value).val <= 0 \/ Atoi(node.Value).val >= 65536
    THEN errorf(f, node.Line, field \o " value out of range")
    ELSE <<>>

p1_validateContainerPort(f, node) ==
    LET fields == toMap(node).m
        cp == IF "containerPort" \notin DOMAIN fields
              THEN errorf(f, node.Line, "containerPort is required")
              ELSE p1_validatePort(f, fields["containerPort"], "containerPort")
        proto == IF "protocol" \in DOMAIN fields
                    /\ fields["protocol"].Value # "TCP" /\ fields["protocol"].Value # "UDP"
                 THEN errorf(f, fields["protocol"].Line,
                             "protocol has unsupported value '" \o fields["protocol"].Value \o "'")
                 ELSE <<>>
    IN  IF toMap(node).isNil THEN errorf(f, node.Line, "port must be a mapping")
        ELSE cp \o proto

RECURSIVE p1_portsLoop(_, _, _)
p1_portsLoop(f, content, i) ==
    IF i > Len(content) THEN <<>>
    ELSE p1_validateContainerPort(f, content[i]) \o p1_portsLoop(f, content, i + 1)

p1_validatePorts(f, node) ==
    IF node.Kind # SequenceNode THEN errorf(f, node.Line, "ports must be a sequence")
    ELSE p1_portsLoop(f, node.Content, 1)

p1_validateHTTPGet(f, node) ==
    LET fields == toMap(node).m
        path == IF "path" \notin DOMAIN fields THEN errorf(f, node.Line, "path is required")
                ELSE IF ~HasPrefix(fields["path"].Value, "/")
                THEN errorf(f, fields["path"].Line,
                            "path has invalid format '" \o fields["path"].Value \o "'")
                ELSE <<>>
        port == IF "port" \notin DOMAIN fields THEN errorf(f, node.Line, "port is required")
                ELSE p1_validatePort(f, fields["port"], "port")
    IN  IF toMap(node).isNil THEN errorf(f, node.Line, "httpGet must be a mapping")
        ELSE path \o port

p1_validateProbe(f, node) ==
    LET fields == toMap(node).m
    IN  IF toMap(node).isNil THEN errorf(f, node.Line, "probe must be a mapping")
        ELSE IF "httpGet" \notin DOMAIN fields THEN errorf(f, node.Line, "httpGet is required")
        ELSE p1_validateHTTPGet(f, fields["httpGet"])

(* The cpu test of validateResourceMap (lines 321-328). *)
p1_cpuCheck(f, cpu) ==
    IF cpu.Tag # "!!int" THEN errorf(f, cpu.Line, "cpu must be int")
    ELSE IF ~Atoi(cpu.Value).ok THEN errorf(f, cpu.Line, "cpu must be int")
    ELSE <<>>

(* The memory test of validateResourceMap (lines 330-336). *)
p1_memoryCheck(f, mem) ==
    IF mem.Kind # ScalarNode THEN errorf(f, mem.Line, "memory must be string")
    ELSE IF ~p1_memoryPattern(mem.Value)
    THEN errorf(f, mem.Line, "memory has invalid format '" \o mem.Value \o "'")
    ELSE <<>>

p1_validateResourceMap(f, node) ==
    LET fields == toMap(node).m
    IN  IF toMap(node).isNil THEN errorf(f, node.Line, "resource section must be a mapping")
        ELSE (IF "cpu" \in DOMAIN fields THEN p1_cpuCheck(f, fields["cpu"]) ELSE <<>>)
             \o (IF "memory" \in DOMAIN fields THEN p1_memoryCheck(f, fields["memory"]) ELSE <<>>)

p1_validateResources(f, node) ==
    LET fields == toMap(node).m
    IN  IF toMap(node).isNil THEN errorf(f, node.Line, "resources must be a mapping")
        ELSE (IF "limits" \in DOMAIN fields
              THEN p1_validateResourceMap(f, fields["limits"]) ELSE <<>>)
             \o (IF "requests" \in DOMAIN fields
                 THEN p1_validateResourceMap(f, fields["requests"]) ELSE <<>>)

p1_validateContainer(f, node, names) ==
    LET fields == toMap(node).m
        name == IF "name" \notin DOMAIN fields
                THEN [errors |-> errorf(f, node.Line, "name is required"), names |-> names]
                ELSE IF fields["name"].Value = ""
                THEN [errors |-> errorf(f, fields["name"].Line, "name is required"),
                      names |-> names]
                ELSE p1_validateContainerName(f, fields["name"], names)
        image == IF "image" \notin DOMAIN fields THEN errorf(f, node.Line, "image is required")
                 ELSE IF fields["image"].Value = ""
                 THEN errorf(f, fields["image"].Line, "image is required")
                 ELSE p1_validateImage(f, fields["image"])
        resources == IF "resources" \notin DOMAIN fields
                     THEN errorf(f, node.Line, "resources is required")
                     ELSE p1_validateResources(f, fields["resources"])
        ports == IF "ports" \in DOMAIN fields THEN p1_validatePorts(f, fields["ports"]) ELSE <<>>
        readiness == IF "readinessProbe" \in DOMAIN fields
                     THEN p1_validateProbe(f, fields["readinessProbe"]) ELSE <<>>
        liveness == IF "livenessProbe" \in DOMAIN fields
                    THEN p1_validateProbe(f, fields["livenessProbe"]) ELSE <<>>
    IN  IF toMap(node).isNil
        THEN [errors |-> errorf(f, node.Line, "container must be a mapping"), names |-> names]
        ELSE [errors |-> name.errors \o image \o resources \o ports \o readiness \o liveness,
              names |-> name.names]

RECURSIVE p1_containersLoop(_, _, _, _)
(* The lines of one container, then the rest of the loop with its names. *)
p1_containersNext(f, content, i, c) == c.errors \o p1_containersLoop(f, content, i + 1, c.names)

p1_containersLoop(f, content, i, names) ==
    IF i > Len(content) THEN <<>>
    ELSE p1_containersNext(f, content, i, p1_validateContainer(f, content[i], names))

p1_validateContainers(f, node) ==
    IF node.Kind # SequenceNode THEN errorf(f, node.Line, "containers must be a sequence")
    ELSE p1_containersLoop(f, node.Content, 1, [isNil |-> FALSE, keys |-> {}])

p1_validateSpec(f, node) ==
    LET fields == toMap(node).m
    IN  IF toMap(node).isNil THEN errorf(f, node.Line, "spec must be a mapping")
        ELSE (IF "containers" \notin DOMAIN fields
              THEN errorf(f, node.Line, "containers is required")
              ELSE p1_validateContainers(f, fields["containers"]))
             \o (IF "os" \in DOMAIN fields THEN p1_validatePodOS(f, fields["os"]) ELSE <<>>)

(* One turn of the loop over the required fields in validateTopLevel. *)
p1_topLevelField(f, doc, fields, name) ==
    IF name \notin DOMAIN fields THEN errorf(f, doc.Line, name \o " is required")
    ELSE IF name = "apiVersion"
    THEN (IF fields[name].Value # "v1"
          THEN errorf(f, fields[name].Line,
                      "apiVersion has unsupported value '" \o fields[name].Value \o "'")
          ELSE <<>>)
    ELSE IF name = "kind"
    THEN (IF fields[name].Value # "Pod"
          THEN errorf(f, fields[name].Line,
                      "kind has unsupported value '" \o fields[name].Value \o "'")
          ELSE <<>>)
    ELSE IF name = "metadata" THEN p1_validateMetadata(f, fields[name])
    ELSE IF name = "spec" THEN p1_validateSpec(f, fields[name])
    ELSE <<>>

RECURSIVE p1_requiredLoop(_, _, _, _, _)
(* for _, f := range required *)
p1_requiredLoop(f, doc, fields, required, i) ==
    IF i > Len(required) THEN <<>>
    ELSE p1_topLevelField(f, doc, fields, required[i])
         \o p1_requiredLoop(f, doc, fields, required, i + 1)

p1_validateTopLevel(f, doc) ==
    IF doc.Kind # MappingNode THEN errorf(f, doc.Line, "root must be a mapping")
    ELSE p1_requiredLoop(f, doc, toMap(doc).m, <<"apiVersion", "kind", "metadata", "spec">>, 1)

(* What main prints and how it exits, given validator.errors. *)
p1_report(errors) == [out |-> errors, exit |-> IF Len(errors) > 0 THEN 1 ELSE 0]

(* main from the parsed root on (lines 374-387): the lines printed and the *)
(* exit status.                                                            *)
p1_main(parsed, filename) ==
    IF Len(parsed.Content) = 0
    THEN [out |-> <<Base(filename) \o ": empty YAML">>, exit |-> 1]
    ELSE p1_report(p1_validateTopLevel(filename, parsed.Content[1]))

(***************************************************************************)
(* The manifests given to the programs: source texts, parsed by            *)
(* yaml.Unmarshal before any validator runs.                               *)
(***************************************************************************)
(* os.Args[1] *)
FileName == "manifests/pod.yaml"

TopFields == {"apiVersion", "kind", "metadata", "spec"}

GoodImage == "registry.bigbrother.io/app:1.0"

ContainerText(name, image, port, cpu, memory) ==
    Map(<<Pair("name", name),
          Pair("image", image),
          Pair("ports", List(<<Map(<<Pair("containerPort", port),
                                     Pair("protocol", Plain("TCP"))>>)>>)),
          Pair("readinessProbe",
               Map(<<Pair("httpGet", Map(<<Pair("path", Plain("/healthz")),
                                           Pair("port", port)>>))>>)),
          Pair("resources",
               Map(<<Pair("limits", Map(<<Pair("cpu", cpu), Pair("memory", memory)>>)),
                     Pair("requests", Map(<<Pair("memory", memory)>>))>>))>>)

NamedContainer(name) ==
    ContainerText(Plain(name), Plain(GoodImage), Plain("8080"), Plain("2"), Plain("512Mi"))

PodText(present, apiVersion, kind, metaName, containers) ==
    Map(SelectSeq(<<Pair("apiVersion", apiVersion),
                    Pair("kind", kind),
                    Pair("metadata", Map(<<Pair("name", metaName)>>)),
                    Pair("spec", Map(<<Pair("containers", List(containers))>>))>>,
                  LAMBDA pair : pair.v \in present))

FullPod(containers) == PodText(TopFields, Plain("v1"), Plain("Pod"), Plain("mypod"), containers)

ApiVersionTexts == {Plain("v1"), Quoted("v1"), Plain("v2"), Quoted("v2"), Plain("2"), Plain("true")}
KindTexts       == {Plain("Pod"), Plain("Deployment")}
ImageTexts ==
    {Plain(GoodImage), Plain("registry.bigbrother.io/app"), Plain("docker.io/app:1.0"),
     Plain("registry.bigbrother.io/:1.0"), Plain("registry.bigbrother.io/app:"),
     Plain("registry.bigbrother.io/team/app:1.0"), Plain("registry.bigbrother.io/a:b:c"),
     Plain("registry.bigbrother.io/:")}
PortValues  == {"0", "1", "8080", "65535", "65536", "70000", "-1"}
PortTexts   == {Plain(v) : v \in PortValues} \cup {Quoted(v) : v \in PortValues} \cup {Plain("http")}
CpuTexts    == {Plain("2"), Quoted("4"), Plain("500m")}
MemoryValues == {"512Mi", "1Gi", "64Ki", "512", "512Xi", "Mi", "512mi", "5x2Mi", "512MiB"}
MemoryTexts == {Plain(v) : v \in MemoryValues} \cup {Quoted(v) : v \in MemoryValues}
NameValues  == {"web", "db", "Web"}
MetaNames   == {Plain("mypod"), Plain("My-Pod"), Quoted(""), Plain("123"), Quoted("My Pod")}

(* Top level: which required fields are there, apiVersion, kind, and a     *)
(* container whose image is well or ill formed.                            *)
TopTexts ==
    {PodText(present, apiVersion, kind, Plain("mypod"),
             <<ContainerText(Plain("web"), image, Plain("8080"), Plain("2"), Plain("512Mi"))>>) :
        present \in SUBSET TopFields, apiVersion \in ApiVersionTexts, kind \in KindTexts,
        image \in {Plain(GoodImage), Plain("docker.io/app:1.0")}}

(* Containers: every list of up to MaxContainers names. *)
NameTexts ==
    {FullPod([i \in 1..n |-> NamedContainer(names[i])]) :
        n \in 0..MaxContainers, names \in [1..MaxContainers -> NameValues]}

(* One container, one field of it varied. *)
FieldTexts ==
    {FullPod(<<ContainerText(Plain("web"), image, Plain("8080"), Plain("2"), Plain("512Mi"))>>) :
        image \in ImageTexts}
    \cup {FullPod(<<ContainerText(Plain("web"), Plain(GoodImage), port, Plain("2"), Plain("512Mi"))>>) :
        port \in PortTexts}
    \cup {FullPod(<<ContainerText(Plain("web"), Plain(GoodImage), Plain("8080"), cpu, memory)>>) :
        cpu \in CpuTexts, memory \in MemoryTexts}
    \cup {PodText(TopFields, Plain("v1"), Plain("Pod"), name, <<NamedContainer("web")>>) :
        name \in MetaNames}

(* A Pod with apiVersion v1 and kind Pod around a metadata and a spec text. *)
PodOf(metadata, spec) ==
    Map(<<Pair("apiVersion", Plain("v1")), Pair("kind", Plain("Pod")),
          Pair("metadata", metadata), Pair("spec", spec)>>)

GoodMetadata == Map(<<Pair("name", Plain("mypod"))>>)

GoodSpec == Map(<<Pair("containers", List(<<NamedContainer("web")>>))>>)

(* metadata: namespace and labels, the value of the second label varied. *)
NamespaceTexts == {Plain("prod"), Plain("123"), Map(<<Pair("a", Plain("b"))>>)}
LabelValueTexts ==
    {Plain("db"), Quoted("1"), Plain("1"), Plain("true"),
     Map(<<Pair("a", Plain("b"))>>), List(<<Plain("x")>>)}
MetadataTexts ==
    {PodOf(Map(<<Pair("name", Plain("mypod")), Pair("namespace", ns)>>), GoodSpec) :
        ns \in NamespaceTexts}
    \cup {PodOf(Map(<<Pair("name", Plain("mypod")),
                      Pair("labels", Map(<<Pair("app", Plain("web")), Pair("tier", v)>>))>>),
                GoodSpec) : v \in LabelValueTexts}
    \cup {PodOf(Map(<<Pair("name", Plain("mypod")), Pair("labels", Plain("web"))>>), GoodSpec)}

(* spec.os in its shapes; spec without containers. *)
OsTexts ==
    {Plain("linux"), Plain("bsd"), List(<<Plain("linux")>>),
     Map(<<Pair("name", Plain("linux"))>>), Map(<<Pair("name", Plain("windows"))>>),
     Map(<<Pair("name", Plain("bsd"))>>), Map(<<Pair("arch", Plain("arm"))>>)}
OsSpecTexts ==
    {PodOf(GoodMetadata, Map(<<Pair("os", os),
                               Pair("containers", List(<<NamedContainer("web")>>))>>)) :
        os \in OsTexts}
    \cup {PodOf(GoodMetadata, Map(<<Pair("os", Map(<<Pair("name", Plain("linux"))>>))>>))}

(* Nodes of another kind where the schema wants a mapping or a sequence:   *)
(* spec, spec.containers, the items of containers, ports.                  *)
BadMemory == "512Xi"
PortsContainer(ports) ==
    Map(<<Pair("name", Plain("web")), Pair("image", Plain(GoodImage)), Pair("ports", ports),
          Pair("resources", Map(<<Pair("limits", Map(<<Pair("memory", Plain(BadMemory))>>))>>))>>)
ItemTexts ==
    {Plain("web"), List(<<>>), List(<<Plain("a")>>), List(<<Plain("name"), Plain("web")>>),
     List(<<Plain("name"), Plain("web"), Plain("image")>>)}
StructureTexts ==
    {PodOf(GoodMetadata, spec) : spec \in {Plain("Pod"), List(<<Plain("Pod")>>)}}
    \cup {PodOf(GoodMetadata, Map(<<Pair("containers", containers)>>)) :
            containers \in {Plain("web"), Map(<<Pair("name", Plain("web"))>>)}}
    \cup {PodOf(GoodMetadata, Map(<<Pair("containers", List(<<NamedContainer("web"), item>>))>>)) :
            item \in ItemTexts}
    \cup {PodOf(GoodMetadata, Map(<<Pair("containers", List(<<item, item>>))>>)) :
            item \in ItemTexts}
    \cup {PodOf(GoodMetadata, Map(<<Pair("containers", List(<<PortsContainer(ports)>>))>>)) :
            ports \in {Map(<<Pair("containerPort", Plain("0"))>>), Plain("8080"),
                       List(<<Plain("8080")>>)}}

(* The same key twice in the root mapping. *)
DuplicateKeyTexts ==
    {Map(<<Pair("apiVersion", first), Pair("kind", Plain("Pod")),
           Pair("metadata", GoodMetadata), Pair("apiVersion", second),
           Pair("spec", GoodSpec)>>) :
        first \in {Plain("v1"), Plain("v2")}, second \in {Plain("v1"), Plain("v2"), Plain("v3")}}

(* The top-level keys in every order, any of them left out, each with a    *)
(* violation of its own.                                                   *)
Orders == {order \in [1..4 -> TopFields] : \A i, j \in 1..4 : order[i] = order[j] => i = j}
ViolatingField(field) ==
    IF field = "apiVersion" THEN Pair("apiVersion", Plain("v2"))
    ELSE IF field = "kind" THEN Pair("kind", Plain("Deployment"))
    ELSE IF field = "metadata" THEN Pair("metadata", Map(<<Pair("name", Quoted(""))>>))
    ELSE Pair("spec", Map(<<Pair("containers",
             List(<<ContainerText(Plain("web"), Plain("docker.io/app:1.0"), Plain("8080"),
                                  Plain("2"), Plain("512Mi"))>>))>>))
OrderTexts ==
    {Map(SelectSeq([i \in 1..4 |-> ViolatingField(order[i])], LAMBDA pair : pair.v \in present)) :
        order \in Orders, present \in SUBSET TopFields}

Texts ==
    TopTexts \cup NameTexts \cup FieldTexts \cup {Plain("Pod"), List(<<Plain("Pod")>>)}
    \cup MetadataTexts \cup OsSpecTexts \cup StructureTexts \cup DuplicateKeyTexts \cup OrderTexts

(* What Unmarshal can leave in root: the document of a text, or the zero   *)
(* node of an empty file.                                                  *)
Roots == {Unmarshal(text) : text \in Texts} \cup {ZeroNode}

(* The nodes a document holds at the places the functions below are called *)
(* on: the items of spec.containers, and their resource sections.          *)
RootMapping(r) == IF Len(r.Content) = 0 THEN NilNode ELSE r.Content[1]

ContainersOf(r) ==
    LET containers == findNodeByKey(findNodeByKey(RootMapping(r), "spec"), "containers")
    IN  IF containers.Kind # SequenceNode THEN {}
        ELSE {containers.Content[i] : i \in 1..Len(containers.Content)}

(* [index, node]: the items with their 0-based index in the sequence. *)
IndexedContainersOf(r) ==
    LET containers == findNodeByKey(findNodeByKey(RootMapping(r), "spec"), "containers")
    IN  IF containers.Kind # SequenceNode THEN {}
        ELSE {[index |-> i - 1, node |-> containers.Content[i]] : i \in 1..Len(containers.Content)}

PortItemsOf(r) ==
    UNION {LET ports == findNodeByKey(c, "ports")
           IN  IF ports.Kind # SequenceNode THEN {}
               ELSE {ports.Content[i] : i \in 1..Len(ports.Content)} : c \in ContainersOf(r)}

SectionsOf(r) ==
    {[kind |-> kind, node |-> findNodeByKey(findNodeByKey(c, "resources"), kind)] :
        c \in ContainersOf(r), kind \in {"limits", "requests"}}

(***************************************************************************)
(* The state: the parsed root, the function that ran last (op), the value  *)
(* it was given (arg) and what it returned (out).  A run parses one file   *)
(* and validates it once; each function is also run on its own, on the     *)
(* nodes of the parsed file it is called on.                               *)
(***************************************************************************)
VARIABLES root, op, arg, out
vars == <<root, op, arg, out>>

Init ==
    /\ root \in Roots
    /\ op = "Unmarshal"
    /\ arg = NilNode
    /\ out = <<>>

(* main.go: validateFile on the parsed root. *)
MainValidateFile ==
    /\ op = "Unmarshal"
    /\ op' = "main.validateFile"
    /\ arg' = root
    /\ out' = main_validateFile(root, FileName)
    /\ UNCHANGED root

(* main.go: validateTopLevel on the document node. *)
MainValidateTopLevel ==
    /\ op = "Unmarshal"
    /\ root.Kind = DocumentNode
    /\ op' = "main.validateTopLevel"
    /\ arg' = root
    /\ out' = main_validateTopLevel(root, FileName)
    /\ UNCHANGED root

(* main.go: validateContainer on an item of spec.containers. *)
MainValidateContainer ==
    \E c \in IndexedContainersOf(root) :
        /\ op = "Unmarshal"
        /\ op' = "main.validateContainer"
        /\ arg' = c.node
        /\ out' = main_validateContainer(c.node, FileName, c.index)
        /\ UNCHANGED root

(* main.go: validateContainerPort on an item of ports. *)
MainValidateContainerPort ==
    \E p \in PortItemsOf(root) :
        /\ op = "Unmarshal"
        /\ op' = "main.validateContainerPort"
        /\ arg' = p
        /\ out' = main_validateContainerPort(p, FileName)
        /\ UNCHANGED root

(* main.go: one turn of checkResource's loop, on a pair of a section. *)
MainCheckResourcePair ==
    \E s \in SectionsOf(root) :
        /\ op = "Unmarshal"
        /\ s.node.Kind = MappingNode
        /\ \E i \in 1..(Len(s.node.Content) \div 2) :
            /\ op' = "main.checkResourcePair"
            /\ arg' = [kind |-> s.kind, key |-> s.node.Content[2 * i - 1],
                       val |-> s.node.Content[2 * i]]
            /\ out' = main_checkResourcePair(s.node.Content[2 * i - 1], s.node.Content[2 * i],
                                             "containers[0].resources", s.kind, FileName)
        /\ UNCHANGED root

(* part_000: validateFile on the parsed root. *)
P0ValidateFile ==
    /\ op = "Unmarshal"
    /\ op' = "p0.validateFile"
    /\ arg' = root
    /\ out' = p0_validateFile(root)
    /\ UNCHANGED root

(* part_000: validateContainer on an item of spec.containers. *)
P0ValidateContainer ==
    \E c \in ContainersOf(root) :
        /\ op = "Unmarshal"
        /\ op' = "p0.validateContainer"
        /\ arg' = c
        /\ out' = p0_validateContainer(c)
        /\ UNCHANGED root

(* part_000: validateContainerPort on an item of ports. *)
P0ValidateContainerPort ==
    \E p \in PortItemsOf(root) :
        /\ op = "Unmarshal"
        /\ op' = "p0.validateContainerPort"
        /\ arg' = p
        /\ out' = p0_validateContainerPort(p)
        /\ UNCHANGED root

(* part_000: validateResourceSpec on a section. *)
P0ValidateResourceSpec ==
    \E s \in SectionsOf(root) :
        /\ op = "Unmarshal"
        /\ s.node # NilNode
        /\ op' = "p0.validateResourceSpec"
        /\ arg' = s
        /\ out' = p0_validateResourceSpec(s.node, s.kind)
        /\ UNCHANGED root

(* part_001: main on the parsed root. *)
P1Main ==
    /\ op = "Unmarshal"
    /\ op' = "p1.main"
    /\ arg' = root
    /\ out' = p1_main(root, FileName)
    /\ UNCHANGED root

(* part_001: validateContainer on an item of spec.containers, with the     *)
(* empty names map validateContainers starts from; the lines appended.     *)
P1ValidateContainer ==
    \E c \in ContainersOf(root) :
        /\ op = "Unmarshal"
        /\ op' = "p1.validateContainer"
        /\ arg' = c
        /\ out' = p1_validateContainer(FileName, c, [isNil |-> FALSE, keys |-> {}]).errors
        /\ UNCHANGED root

(* part_001: validateContainerPort on an item of ports. *)
P1ValidateContainerPort ==
    \E p \in PortItemsOf(root) :
        /\ op = "Unmarshal"
        /\ op' = "p1.validateContainerPort"
        /\ arg' = p
        /\ out' = p1_validateContainerPort(FileName, p)
        /\ UNCHANGED root

(* part_001: validateResourceMap on a section. *)
P1ValidateResourceMap ==
    \E s \in SectionsOf(root) :
        /\ op = "Unmarshal"
        /\ s.node # NilNode
        /\ op' = "p1.validateResourceMap"
        /\ arg' = s
        /\ out' = p1_validateResourceMap(FileName, s.node)
        /\ UNCHANGED root

Next ==
    \/ MainValidateFile
    \/ MainValidateTopLevel
    \/ MainValidateContainer
    \/ MainValidateContainerPort
    \/ MainCheckResourcePair
    \/ P0ValidateFile
    \/ P0ValidateContainer
    \/ P0ValidateContainerPort
    \/ P0ValidateResourceSpec
    \/ P1Main
    \/ P1ValidateContainer
    \/ P1ValidateContainerPort
    \/ P1ValidateResourceMap

Spec == Init /\ [][Next]_vars

(***************************************************************************)
(* Diagnostics: what the function that ran reported, as [line, message]    *)
(* records in order, whatever the program.  part_001 prints               *)
(* "<base>:<line> <message>" or "<base> <message>"; the line is read back  *)
(* from the text.                                                          *)
(***************************************************************************)
MainOps == {"main.validateFile", "main.validateTopLevel", "main.validateContainer",
            "main.validateContainerPort", "main.checkResourcePair"}
P0Ops == {"p0.validateContainer", "p0.validateContainerPort", "p0.validateResourceSpec"}
P1Ops == {"p1.validateContainer", "p1.validateContainerPort", "p1.validateResourceMap"}

Diagnostic(line, message) == [line |-> line, message |-> message]

(* The first index from i on where s holds a space, Len(s) + 1 if none. *)
RECURSIVE SpaceFrom(_, _)
SpaceFrom(s, i) ==
    IF i > Len(s) \/ Char(s, i) = " " THEN i ELSE SpaceFrom(s, i + 1)

DecodeLine(s) ==
    LET rest == SliceFrom(s, Len(Base(FileName)))
        sp   == SpaceFrom(rest, 1)
    IN  IF Len(rest) > 0 /\ Char(rest, 1) = ":"
        THEN Diagnostic(DecVal(SubSeq(rest, 2, sp - 1)), SubSeq(rest, sp + 1, Len(rest)))
        ELSE Diagnostic(0, SliceFrom(rest, 1))

Diagnostics ==
    IF op \in MainOps THEN [i \in 1..Len(out) |-> Diagnostic(out[i].Line, out[i].Msg)]
    ELSE IF op = "p0.validateFile"
    THEN [i \in 1..Len(out.errors) |-> Diagnostic(out.errors[i].Line, out.errors[i].Message)]
    ELSE IF op \in P0Ops THEN [i \in 1..Len(out) |-> Diagnostic(out[i].Line, out[i].Message)]
    ELSE IF op = "p1.main" THEN [i \in 1..Len(out.out) |-> DecodeLine(out.out[i])]
    ELSE IF op \in P1Ops THEN [i \in 1..Len(out) |-> DecodeLine(out[i])]
    ELSE <<>>

(* main.go qualifies a field by its path ("containers[0].image ..."); the  *)
(* other programs print the bare field.                                    *)
Says(d, message) == d.message = message \/ HasSuffix(d.message, "." \o message)

Reported(line, message) ==
    \E i \in 1..Len(Diagnostics) : Diagnostics[i].line = line /\ Says(Diagnostics[i], message)

NoneAt(line) == \A i \in 1..Len(Diagnostics) : Diagnostics[i].line # line

(* The value of key in a mapping node, NilNode when absent or no mapping. *)
Child(node, key) == findNodeByKey(node, key)

Items(node) == IF node.Kind = SequenceNode THEN node.Content ELSE <<>>

(***************************************************************************)
(* The schema of the manifest, read strictly: strings are string-tagged    *)
(* scalars, integers are integer-tagged scalars.  A tree with              *)
(* ZeroViolations breaks no rule under any reading of the schema.          *)
(***************************************************************************)
IsStr(n) == n.Kind = ScalarNode /\ n.Tag = "!!str"
IsInt(n) == n.Kind = ScalarNode /\ n.Tag = "!!int" /\ Atoi(n.Value).ok
Absent(n) == n = NilNode

(* ^registry\.bigbrother\.io/[^:]+:.+$ : the first ':' after the prefix    *)
(* has a character before it and a character after it.                      *)
SchemaImage(s) ==
    /\ HasPrefix(s, "registry.bigbrother.io/")
    /\ LET rest   == SliceFrom(s, Len("registry.bigbrother.io/"))
           colons == {i \in 1..Len(rest) : Char(rest, i) = ":"}
       IN  /\ colons # {}
           /\ \A i \in colons : (\A j \in colons : i <= j) => (i >= 2 /\ i < Len(rest))

(* ^\d+(Gi|Mi|Ki)$ *)
SchemaMemory(s) ==
    \E n \in 1..(Len(s) - 2) :
        /\ \A i \in 1..n : Char(s, i) \in {"0", "1", "2", "3", "4", "5", "6", "7", "8", "9"}
        /\ SubSeq(s, n + 1, Len(s)) \in {"Gi", "Mi", "Ki"}

(* ^[a-z][a-z0-9_]*$ *)
SchemaName(s) == MatchSnakeCase(s)

SchemaPort(n) == IsInt(n) /\ Atoi(n.Value).val \in 1..65535

SchemaResourceSpec(n) ==
    \/ Absent(n)
    \/ /\ n.Kind = MappingNode
       /\ Absent(Child(n, "cpu")) \/ IsInt(Child(n, "cpu"))
       /\ Absent(Child(n, "memory"))
            \/ (IsStr(Child(n, "memory")) /\ SchemaMemory(Child(n, "memory").Value))

SchemaProbe(n) ==
    \/ Absent(n)
    \/ /\ n.Kind = MappingNode
       /\ Child(n, "httpGet").Kind = MappingNode
       /\ IsStr(Child(Child(n, "httpGet"), "path"))
       /\ HasPrefix(Child(Child(n, "httpGet"), "path").Value, "/")
       /\ SchemaPort(Child(Child(n, "httpGet"), "port"))

SchemaContainerPort(n) ==
    /\ n.Kind = MappingNode
    /\ SchemaPort(Child(n, "containerPort"))
    /\ Absent(Child(n, "protocol"))
         \/ (IsStr(Child(n, "protocol")) /\ Child(n, "protocol").Value \in {"TCP", "UDP"})

SchemaContainer(n) ==
    /\ n.Kind = MappingNode
    /\ IsStr(Child(n, "name")) /\ SchemaName(Child(n, "name").Value)
    /\ IsStr(Child(n, "image")) /\ SchemaImage(Child(n, "image").Value)
    /\ Child(n, "resources").Kind = MappingNode
    /\ SchemaResourceSpec(Child(Child(n, "resources"), "limits"))
    /\ SchemaResourceSpec(Child(Child(n, "resources"), "requests"))
    /\ Absent(Child(n, "ports"))
         \/ /\ Child(n, "ports").Kind = SequenceNode
            /\ \A i \in 1..Len(Child(n, "ports").Content) :
                   SchemaContainerPort(Child(n, "ports").Content[i])
    /\ SchemaProbe(Child(n, "readinessProbe"))
    /\ SchemaProbe(Child(n, "livenessProbe"))

SchemaSpec(n) ==
    /\ n.Kind = MappingNode
    /\ Absent(Child(n, "os"))
         \/ (IsStr(Child(Child(n, "os"), "name"))
             /\ Child(Child(n, "os"), "name").Value \in {"linux", "windows"})
    /\ Child(n, "containers").Kind = SequenceNode
    /\ Len(Child(n, "containers").Content) >= 1
    /\ \A i \in 1..Len(Child(n, "containers").Content) :
           /\ SchemaContainer(Child(n, "containers").Content[i])
           /\ \A j \in 1..(i - 1) :
                  Child(Child(n, "containers").Content[j], "name").Value
                      # Child(Child(n, "containers").Content[i], "name").Value

SchemaMetadata(n) ==
    /\ n.Kind = MappingNode
    /\ IsStr(Child(n, "name")) /\ Child(n, "name").Value # ""
    /\ Absent(Child(n, "namespace")) \/ IsStr(Child(n, "namespace"))
    /\ Absent(Child(n, "labels"))
         \/ /\ Child(n, "labels").Kind = MappingNode
            /\ \A i \in 1..Len(Child(n, "labels").Content) : IsStr(Child(n, "labels").Content[i])

(* The root Document node holds a Pod mapping with no schema violation. *)
ZeroViolations(r) ==
    /\ r.Kind = DocumentNode
    /\ Len(r.Content) = 1
    /\ r.Content[1].Kind = MappingNode
    /\ IsStr(Child(r.Content[1], "apiVersion")) /\ Child(r.Content[1], "apiVersion").Value = "v1"
    /\ IsStr(Child(r.Content[1], "kind")) /\ Child(r.Content[1], "kind").Value = "Pod"
    /\ SchemaMetadata(Child(r.Content[1], "metadata"))
    /\ SchemaSpec(Child(r.Content[1], "spec"))

(* C1: for every parsed stream whose root Document node holds a Pod        *)
(* mapping with zero schema violations, validateFile (main.go, part_000)   *)
(* yields no Diagnostic at all.                                            *)
C1_CleanDocumentNoDiagnostic ==
    (op \in {"main.validateFile", "p0.validateFile"} /\ ZeroViolations(root))
        => Len(Diagnostics) = 0

(***************************************************************************)
(* The places of the parsed file the properties below speak of.            *)
(***************************************************************************)
(* The functions that validate a whole Pod mapping: main.go               *)
(* validateTopLevel, part_000 validatePod (through validateFile),          *)
(* part_001 validateTopLevel (through main).                               *)
PodOps == {"main.validateTopLevel", "p0.validateFile", "p1.main"}

Pod == RootMapping(root)

ContainerItems == Items(Child(Child(Pod, "spec"), "containers"))

(* C2: collect-all.  A document that violates the schema in two            *)
(* independent places, kind not 'Pod' and a malformed image of a           *)
(* container, gets a Diagnostic for each of the two in one pass.           *)
C2_CollectAll ==
    (/\ op \in PodOps
     /\ Pod.Kind = MappingNode
     /\ IsStr(Child(Pod, "apiVersion")) /\ Child(Pod, "apiVersion").Value = "v1"
     /\ IsStr(Child(Pod, "kind")) /\ Child(Pod, "kind").Value # "Pod"
     /\ SchemaMetadata(Child(Pod, "metadata")))
        => \A i \in 1..Len(ContainerItems) :
               LET image == Child(ContainerItems[i], "image")
               IN  (IsStr(image) /\ ~SchemaImage(image.Value))
                       => /\ Reported(Child(Pod, "kind").Line,
                                      "kind has unsupported value '"
                                          \o Child(Pod, "kind").Value \o "'")
                          /\ Reported(image.Line,
                                      "image has invalid format '" \o image.Value \o "'")

(* The number of Diagnostics that say exactly `message`. *)
CountOf(message) ==
    Cardinality({i \in 1..Len(Diagnostics) : Diagnostics[i].message = message})

(* C3: for every set M of required top-level fields missing from the root  *)
(* mapping, the result holds exactly one '<field> is required' for each    *)
(* field of M and none for a required field that is present.               *)
C3_OnePerMissingField ==
    (op \in PodOps /\ Pod.Kind = MappingNode)
        => \A field \in {"apiVersion", "kind", "metadata", "spec"} :
               CountOf(field \o " is required")
                   = IF Absent(Child(Pod, field)) THEN 1 ELSE 0

(* C4: a top-level apiVersion scalar whose value v is not 'v1' yields      *)
(* "apiVersion has unsupported value '<v>'" at the line of the apiVersion  *)
(* node; apiVersion: v1 yields no Diagnostic for that field.               *)
C4_ApiVersionUnsupported ==
    (/\ op \in PodOps
     /\ Pod.Kind = MappingNode
     /\ Child(Pod, "apiVersion").Kind = ScalarNode)
        => IF Child(Pod, "apiVersion").Value = "v1"
           THEN \A i \in 1..Len(Diagnostics) :
                    ~HasPrefix(Diagnostics[i].message, "apiVersion")
           ELSE Reported(Child(Pod, "apiVersion").Line,
                         "apiVersion has unsupported value '"
                             \o Child(Pod, "apiVersion").Value \o "'")

(* The name node of the i-th item of spec.containers. *)
NameOf(i) == Child(ContainerItems[i], "name")

(* The index of the first item that holds the name of item j. *)
FirstHolder(j) ==
    CHOOSE i \in 1..j :
        /\ NameOf(i).Value = NameOf(j).Value
        /\ \A k \in 1..(i - 1) : NameOf(k).Value # NameOf(j).Value

(* The lines of the names that repeat the name of an earlier item. *)
LaterOccurrenceLines ==
    {NameOf(j).Line : j \in {k \in 1..Len(ContainerItems) : FirstHolder(k) < k}}

(* part_000 says "duplicate container name ...", part_001 "... is not unique". *)
IsUniqueness(d) ==
    Contains(d.message, "duplicate container name") \/ Contains(d.message, "is not unique")

UniquenessDiagnostics == {i \in 1..Len(Diagnostics) : IsUniqueness(Diagnostics[i])}

AllNamesScalar == \A i \in 1..Len(ContainerItems) : NameOf(i).Kind = ScalarNode

(* C5: whenever two containers of one containers sequence have the same    *)
(* name, the result holds a uniqueness Diagnostic, and the line of every   *)
(* uniqueness Diagnostic is the line of a later occurrence's name, never   *)
(* the first's; pairwise distinct names yield no uniqueness Diagnostic.    *)
C5_DuplicateNameAtLaterLine ==
    (op \in PodOps /\ AllNamesScalar)
        => /\ LaterOccurrenceLines # {} => UniquenessDiagnostics # {}
           /\ \A i \in UniquenessDiagnostics : Diagnostics[i].line \in LaterOccurrenceLines

(* C6: every duplicate-container-name Diagnostic carries in its message    *)
(* the line of the first occurrence of that name in the sequence, also     *)
(* for a third or later occurrence.                                        *)
C6_DuplicateCitesFirstLine ==
    (op \in {"p0.validateFile", "p1.main"} /\ AllNamesScalar)
        => \A i \in UniquenessDiagnostics :
               \A j \in 1..Len(ContainerItems) :
                   NameOf(j).Line = Diagnostics[i].line
                       => Contains(Diagnostics[i].message,
                                   Itoa(NameOf(FirstHolder(j)).Line))

(***************************************************************************)
(* The field a function was run on: the node under test and the name the   *)
(* Diagnostics give it.  NilNode when the function that ran has no such    *)
(* field.                                                                  *)
(***************************************************************************)
ContainerPortField ==
    IF op \in {"main.validateContainerPort", "p0.validateContainerPort",
               "p1.validateContainerPort"}
    THEN Child(arg, "containerPort") ELSE NilNode

HTTPGetPortField ==
    IF op \in {"main.validateContainer", "p0.validateContainer", "p1.validateContainer"}
    THEN Child(Child(Child(arg, "readinessProbe"), "httpGet"), "port") ELSE NilNode

CpuField ==
    IF op = "main.checkResourcePair"
    THEN (IF arg.key.Value = "cpu" THEN arg.val ELSE NilNode)
    ELSE IF op \in {"p0.validateResourceSpec", "p1.validateResourceMap"}
    THEN Child(arg.node, "cpu") ELSE NilNode

MemoryField ==
    IF op = "main.checkResourcePair"
    THEN (IF arg.key.Value = "memory" THEN arg.val ELSE NilNode)
    ELSE IF op \in {"p0.validateResourceSpec", "p1.validateResourceMap"}
    THEN Child(arg.node, "memory") ELSE NilNode

ImageField ==
    IF op \in {"main.validateContainer", "p0.validateContainer", "p1.validateContainer"}
    THEN Child(arg, "image") ELSE NilNode

InRange(n, field) ==
    IsInt(n) => IF Atoi(n.Value).val \in 1..65535
                THEN NoneAt(n.Line)
                ELSE Reported(n.Line, field \o " value out of range")

(* C7: for every port-valued integer field (containerPort of a ports item, *)
(* port of an httpGet action), a value outside 1..65535 yields             *)
(* '<field> value out of range' at the node's line and a value inside      *)
(* yields no Diagnostic for the field (main.go, part_001).                 *)
C7_PortRange ==
    /\ op \in {"main.validateContainerPort", "p1.validateContainerPort"}
           => InRange(ContainerPortField, "containerPort")
    /\ op \in {"main.validateContainer", "p1.validateContainer"}
           => InRange(HTTPGetPortField, "port")

StrictInt(n, field) ==
    (n.Kind = ScalarNode /\ n.Tag # "!!int") => Reported(n.Line, field \o " must be int")

(* C8: for every integer-declared field (containerPort, httpGet port, cpu  *)
(* of limits/requests) only a scalar with the integer type tag is          *)
(* accepted; a string-tagged scalar with a numeric text ("4", "8080")      *)
(* yields '<field> must be int' and is never coerced.                      *)
C8_StrictIntegerTag ==
    /\ StrictInt(ContainerPortField, "containerPort")
    /\ StrictInt(HTTPGetPortField, "port")
    /\ StrictInt(CpuField, "cpu")

(* C9: a container image string is accepted exactly when it matches        *)
(* ^registry\.bigbrother\.io/[^:]+:.+$ ; every other string yields         *)
(* "image has invalid format '<value>'" (main.go, part_000).               *)
C9_ImagePattern ==
    (op \in {"main.validateContainer", "p0.validateContainer"} /\ IsStr(ImageField))
        => IF SchemaImage(ImageField.Value)
           THEN NoneAt(ImageField.Line)
           ELSE Reported(ImageField.Line,
                         "image has invalid format '" \o ImageField.Value \o "'")

(* C10: a memory value under limits or requests is accepted exactly when   *)
(* it is one or more decimal digits followed by Gi, Mi or Ki; any other    *)
(* value ('512', '512Xi') yields "memory has invalid format '<value>'".    *)
C10_MemoryPattern ==
    MemoryField.Kind = ScalarNode
        => IF SchemaMemory(MemoryField.Value)
           THEN NoneAt(MemoryField.Line)
           ELSE Reported(MemoryField.Line,
                         "memory has invalid format '" \o MemoryField.Value \o "'")

(* C12: for every input tree, whatever the kind and the number of children *)
(* of the node at each schema position, validation ends by returning its   *)
(* Diagnostics; it never aborts with a runtime error (part_000, part_001). *)
C12_NoRuntimeError ==
    op = "p0.validateFile" => ~out.panic

Containers == Child(Child(Pod, "spec"), "containers")

(* A Diagnostic that says the containers are missing or empty. *)
IsEmptiness(d) == Says(d, "containers is required") \/ Contains(d.message, "empty")

(* C13: spec.containers must be a non-empty sequence: a sequence with zero *)
(* items yields a Diagnostic, as a missing containers field does, and a    *)
(* sequence with at least one item yields no Diagnostic for emptiness.     *)
C13_NonEmptyContainers ==
    (op \in PodOps /\ Child(Pod, "spec").Kind = MappingNode)
        => /\ (Absent(Containers) \/ (Containers.Kind = SequenceNode /\ Len(Containers.Content) = 0))
                 => \E i \in 1..Len(Diagnostics) : IsEmptiness(Diagnostics[i])
           /\ (Containers.Kind = SequenceNode /\ Len(Containers.Content) >= 1)
                 => \A i \in 1..Len(Diagnostics) : ~IsEmptiness(Diagnostics[i])

Metadata == Child(Pod, "metadata")

MetaName == Child(Metadata, "name")

SomeAt(line) == \E i \in 1..Len(Diagnostics) : Diagnostics[i].line = line

(* The fields main.go validates before metadata are valid. *)
HeadValid ==
    /\ IsStr(Child(Pod, "apiVersion")) /\ Child(Pod, "apiVersion").Value = "v1"
    /\ IsStr(Child(Pod, "kind")) /\ Child(Pod, "kind").Value = "Pod"

(* C14: metadata.name is accepted exactly when it is a non-empty string    *)
(* scalar: an empty string yields a Diagnostic at the name, and every      *)
(* non-empty string, upper-case letters and hyphens included, yields none. *)
C14_MetadataNameNonEmpty ==
    (op \in PodOps /\ HeadValid /\ IsStr(MetaName))
        => IF MetaName.Value = "" THEN SomeAt(MetaName.Line) ELSE NoneAt(MetaName.Line)

Labels == Child(Metadata, "labels")

LabelValues == {Labels.Content[2 * k] : k \in 1..(Len(Labels.Content) \div 2)}

(* C15: when metadata.labels is a mapping, a label value that is a         *)
(* mapping, a sequence or a non-string scalar yields a Diagnostic at the   *)
(* value's line, and labels whose values are all strings yield none.       *)
C15_LabelValuesAreStrings ==
    (op \in PodOps /\ HeadValid /\ IsStr(MetaName) /\ MetaName.Value # ""
        /\ Labels.Kind = MappingNode)
        => /\ \A v \in LabelValues : ~IsStr(v) => SomeAt(v.Line)
           /\ (\A v \in LabelValues : IsStr(v)) => \A v \in LabelValues : NoneAt(v.Line)

(* The free-form string fields of metadata that hold a bare number. *)
NumericTokens ==
    {n \in {MetaName, Child(Metadata, "namespace")} : n.Kind = ScalarNode /\ n.Tag = "!!int"}

(* C16: a free-form string field (metadata.name, metadata.namespace) that  *)
(* holds a bare unquoted number yields no "must be string" Diagnostic.     *)
C16_BareNumberInStringField ==
    (op \in PodOps /\ HeadValid)
        => \A n \in NumericTokens : \A i \in 1..Len(Diagnostics) :
               ~(Diagnostics[i].line = n.Line /\ HasSuffix(Diagnostics[i].message, "must be string"))

Os == Child(Child(Pod, "spec"), "os")

IsStructural(d) == Contains(d.message, "must be")

(* C17: spec.os, when present, is a mapping with a required name that is   *)
(* linux or windows: another kind yields a structural Diagnostic at the    *)
(* os node, a missing name a required-field Diagnostic, another name value *)
(* a Diagnostic at the name's line.                                        *)
C17_OsIsMappingWithName ==
    (op \in PodOps /\ HeadValid /\ IsStr(MetaName) /\ ~Absent(Os))
        => IF Os.Kind # MappingNode
           THEN \E i \in 1..Len(Diagnostics) :
                    Diagnostics[i].line = Os.Line /\ IsStructural(Diagnostics[i])
           ELSE IF Absent(Child(Os, "name"))
           THEN \E i \in 1..Len(Diagnostics) : Says(Diagnostics[i], "name is required")
           ELSE Child(Os, "name").Value \notin {"linux", "windows"}
                    => SomeAt(Child(Os, "name").Line)

(* The pairs of a mapping node whose key is key, by their position. *)
KeyIndexes(node, key) ==
    {i \in 1..(Len(node.Content) \div 2) : node.Content[2 * i - 1].Value = key}

(* The value of the first pair of node, in document order, whose key is key. *)
FirstValue(node, key) ==
    LET first == CHOOSE i \in KeyIndexes(node, key) : \A j \in KeyIndexes(node, key) : i <= j
    IN  node.Content[2 * first]

(* C18: when the root mapping holds apiVersion twice, the value validated  *)
(* is the first one in the document: a Diagnostic about apiVersion is      *)
(* reported exactly when the first value is not v1, at the first value's   *)
(* line, and never at the line of a later one.                             *)
C18_FirstMatchWins ==
    (op \in PodOps /\ Pod.Kind = MappingNode
        /\ Cardinality(KeyIndexes(Pod, "apiVersion")) >= 2)
        => LET first == FirstValue(Pod, "apiVersion")
           IN  /\ first.Value = "v1" <=> NoneAt(first.Line)
               /\ \A i \in KeyIndexes(Pod, "apiVersion") :
                      Pod.Content[2 * i].Line # first.Line => NoneAt(Pod.Content[2 * i].Line)

(* The last line of the text of a node: lines grow along Content. *)
RECURSIVE LastLine(_)
LastLine(n) == IF Len(n.Content) = 0 THEN n.Line ELSE LastLine(n.Content[Len(n.Content)])

PodSpec == Child(Pod, "spec")

MappingItems == {i \in 1..Len(ContainerItems) : ContainerItems[i].Kind = MappingNode}

(* The nodes of spec that have another kind than the schema requires. *)
Misfits ==
    (IF ~Absent(PodSpec) /\ PodSpec.Kind # MappingNode THEN {PodSpec} ELSE {})
    \cup (IF ~Absent(Containers) /\ Containers.Kind # SequenceNode THEN {Containers} ELSE {})
    \cup {ContainerItems[i] : i \in (1..Len(ContainerItems)) \ MappingItems}
    \cup {Child(ContainerItems[i], "ports") : i \in
            {j \in MappingItems : /\ ~Absent(Child(ContainerItems[j], "ports"))
                                  /\ Child(ContainerItems[j], "ports").Kind # SequenceNode}}

(* The Diagnostics whose line lies in the text of node n. *)
Within(n) == {i \in 1..Len(Diagnostics) : Diagnostics[i].line \in n.Line..LastLine(n)}

LimitsMemory(item) == Child(Child(Child(item, "resources"), "limits"), "memory")

(* C19: a node of another kind than the schema requires gets exactly one   *)
(* structural Diagnostic, at its line, and none from inside its subtree,   *)
(* while a sibling subtree (the resources next to a ports node that is no  *)
(* sequence) is still validated.                                           *)
C19_StructuralMismatchSkipsSubtree ==
    (op \in PodOps /\ HeadValid /\ (op = "p0.validateFile" => ~out.panic))
        => /\ \A n \in Misfits :
                  /\ Cardinality(Within(n)) = 1
                  /\ \A i \in Within(n) :
                         Diagnostics[i].line = n.Line /\ IsStructural(Diagnostics[i])
           /\ \A j \in MappingItems :
                  (/\ Child(ContainerItems[j], "ports") \in Misfits
                   /\ IsStr(LimitsMemory(ContainerItems[j]))
                   /\ ~SchemaMemory(LimitsMemory(ContainerItems[j]).Value))
                      => SomeAt(LimitsMemory(ContainerItems[j]).Line)

Rank(f) == CASE f = "apiVersion" -> 1 [] f = "kind" -> 2 [] f = "metadata" -> 3
             [] f = "spec" -> 4 [] OTHER -> 0

(* The lines of the pairs of the root mapping whose key is f. *)
LinesOf(f) ==
    UNION {Pod.Content[2 * i - 1].Line..LastLine(Pod.Content[2 * i]) : i \in KeyIndexes(Pod, f)}

(* The top-level field a Diagnostic is about: the field it names as        *)
(* missing, else the field whose text holds its line; "none" when the      *)
(* Diagnostic carries no line (a missing nested field in part_000).        *)
GroupOf(d) ==
    IF \E f \in TopFields : d.message = f \o " is required"
    THEN CHOOSE f \in TopFields : d.message = f \o " is required"
    ELSE IF \E f \in TopFields : d.line \in LinesOf(f)
    THEN CHOOSE f \in TopFields : d.line \in LinesOf(f)
    ELSE "none"

OrderOps == {"p0.validateFile", "p1.main"}

(* C20: Diagnostics come in the schema's evaluation order whatever the     *)
(* order of the keys in the document: one about apiVersion precedes one    *)
(* about kind, which precedes one from metadata, which precedes one from   *)
(* spec (part_000 validatePod, part_001 validateTopLevel).                 *)
C20_SchemaOrder ==
    op \in OrderOps
        => \A i, j \in 1..Len(Diagnostics) :
               (i < j /\ GroupOf(Diagnostics[i]) # "none" /\ GroupOf(Diagnostics[j]) # "none")
                   => Rank(GroupOf(Diagnostics[i])) <= Rank(GroupOf(Diagnostics[j]))

(* A document with spec, metadata, kind, apiVersion in this order, each    *)
(* with a Diagnostic of its own, reported in the schema's order.           *)
C20_Witness ==
    /\ op \in OrderOps
    /\ Pod.Kind = MappingNode /\ Len(Pod.Content) = 8
    /\ <<Pod.Content[1].Value, Pod.Content[3].Value, Pod.Content[5].Value, Pod.Content[7].Value>>
           = <<"spec", "metadata", "kind", "apiVersion">>
    /\ \A f \in TopFields : \E i \in 1..Len(Diagnostics) :
           GroupOf(Diagnostics[i]) = f /\ Diagnostics[i].line \in LinesOf(f)

=============================================================================
